---- MODULE Spec2Model ----
(***************************************************************************)
(* persistentWritable (src/persistentStore.ts, lines 81-167): a Svelte     *)
(* store whose value is kept in localStorage under storeKey and whose      *)
(* changes are announced on a BroadcastChannel named storeKey.             *)
(*                                                                         *)
(* Two store instances, one per browsing context of the same origin, share *)
(* one localStorage entry.  A public call (persistentWritable, subscribe,  *)
(* unsubscribe, set, update) and the delivery of one broadcast message     *)
(* (onmessage) are each one atomic step: JavaScript runs a task to         *)
(* completion, and message delivery is a later task.                       *)
(***************************************************************************)
EXTENDS Integers, Sequences, FiniteSets, TLC

(***************************************************************************)
(* Bounds of the model.  The registrations of a store, its channel objects *)
(* and the messages in flight are bounded by the number of calls.          *)
(***************************************************************************)
MaxNum == 1        \* numbers 0..MaxNum are passed to set / as initialValue
MaxSteps == 4      \* calls of subscribe, unsubscribe, set, update in one run
MaxFaults == 1     \* steps of one run in which something fails underneath

Inst == {"A", "B"}

storeKey == "k"

(***************************************************************************)
(* JavaScript values.  A value is a record [t, n, s]: its type tag, its    *)
(* number (for a number) and its text (for a string).                      *)
(***************************************************************************)
Undefined == [t |-> "undefined", n |-> 0, s |-> ""]
Null == [t |-> "null", n |-> 0, s |-> ""]
NaN == [t |-> "NaN", n |-> 0, s |-> ""]
Num(k) == [t |-> "number", n |-> k, s |-> ""]
Str(x) == [t |-> "string", n |-> 0, s |-> x]

Numbers == {Num(k) : k \in 0..MaxNum}

\* The values a caller passes as T: numbers, and NaN, which JSON cannot hold.
Args == Numbers \cup {NaN}

\* String(x): the conversion localStorage.setItem and JSON.parse apply to a
\* non-string argument.
ToJSString(x) ==
  CASE x.t = "string" -> x.s
    [] x.t = "number" -> ToString(x.n)
    [] x.t = "NaN" -> "NaN"
    [] x.t = "null" -> "null"
    [] OTHER -> "undefined"

\* JSON.stringify(value): a JS string, or undefined for undefined.
JSONstringify(value) ==
  CASE value.t = "number" -> Str(ToString(value.n))
    [] value.t = "NaN" -> Str("null")
    [] value.t = "null" -> Str("null")
    [] value.t = "string" -> Str("\"" \o value.s \o "\"")
    [] OTHER -> Undefined

\* JSON.parse(text): [threw, value].  The texts that parse are the JSON
\* numbers and null; every other text of the model is a SyntaxError.
JSONparse(x) ==
  LET text == ToJSString(x) IN
  IF text = "null" THEN [threw |-> FALSE, value |-> Null]
  ELSE IF \E k \in 0..(MaxNum + 2) : ToString(k) = text
       THEN [threw |-> FALSE,
             value |-> Num(CHOOSE k \in 0..(MaxNum + 2) : ToString(k) = text)]
       ELSE [threw |-> TRUE, value |-> Undefined]

(***************************************************************************)
(* Observer callbacks.  arity is Function.length, the declared parameter   *)
(* count: f0 is () => ..., g1 is value => ...  A callback either returns   *)
(* or throws; the step chooses which of its callback calls throws, if any. *)
(***************************************************************************)
Observers == {"f0", "g1"}

arity(o) == IF o = "f0" THEN 0 ELSE 1

\* Callbacks that call the store they are subscribed to:
\*   r1 = v => { if (v === 0) store.update(n => n + 1) }
\*   u1 = v => { if (unsubscribeG1) unsubscribeG1() }
\* where unsubscribeG1 is what store.subscribe(g1) returned.
ObserversR == {"g1", "r1", "u1"}


\* update_func arguments: v => v + 1 and v => 0.
Fns == {"inc", "zero"}

update_func(fn, curr) ==
  IF fn = "zero" THEN Num(0)
  ELSE CASE curr.t = "number" -> Num(curr.n + 1)
         [] curr.t = "null" -> Num(1)
         [] OTHER -> NaN

(***************************************************************************)
(* State.                                                                  *)
(***************************************************************************)
VARIABLES
  localStorage,    \* localStorage.getItem(storeKey): Null or a string
  bcAvailable,     \* BroadcastChannel is defined in this browser
  created,         \* per instance: persistentWritable returned
  storeValue,      \* per instance: let storeValue
  subscriptions,   \* per instance: let subscriptions
  channels,        \* per instance: the BroadcastChannel objects it created
  storeChannel,    \* per instance: let storeChannel (0 is null)
  unsubscribes,    \* per instance: callbacks whose unsubscribe was returned
  inbox,           \* per context: broadcast messages not yet delivered
  steps,           \* calls of the store interface made so far
  faults,          \* steps so far in which localStorage or a callback failed
  owed,            \* the value B's observers are still to be told of
  last             \* the step just taken and what it did

vars == <<localStorage, bcAvailable, created, storeValue, subscriptions,
          channels, storeChannel, unsubscribes, inbox, steps, faults, owed, last>>

\* last: op is the call (or "onmessage", or "dropped" for a message no handler
\* took), inst the store, obs / value / fn its argument, wfail and rfail
\* whether localStorage failed in it, data the message's data (for the
\* constructor: "initial" when it took initialValue, "stored" when it parsed
\* the entry), calls the observer calls it made in order, fnArgs the
\* update_func calls, sent whether it posted, threw whether it threw.
NoOp == [op |-> "none", inst |-> "none", obs |-> "none", value |-> Undefined,
         fn |-> "none", wfail |-> FALSE, rfail |-> FALSE, data |-> "none",
         threw |-> FALSE, calls |-> <<>>, fnArgs |-> <<>>, sent |-> FALSE,
         sets |-> <<>>]

\* The program state an operation works on, with what the operation did so
\* far: the observer calls it made, the update_func calls it made, the values
\* its calls of set assigned, whether it posted a message, whether an
\* exception is propagating.  fault is the number of the callback call that
\* throws (0: none does).
Cur(fault) ==
  [localStorage |-> localStorage, storeValue |-> storeValue,
   subscriptions |-> subscriptions, channels |-> channels,
   storeChannel |-> storeChannel, unsubscribes |-> unsubscribes,
   inbox |-> inbox, created |-> created,
   calls |-> <<>>, fnArgs |-> <<>>, sent |-> FALSE, threw |-> FALSE,
   sets |-> <<>>, fault |-> fault]

Commit(S) ==
  /\ localStorage' = S.localStorage
  /\ storeValue' = S.storeValue
  /\ subscriptions' = S.subscriptions
  /\ channels' = S.channels
  /\ storeChannel' = S.storeChannel
  /\ unsubscribes' = S.unsubscribes
  /\ inbox' = S.inbox
  /\ created' = S.created


\* owed after a step that left the program in S and is recorded as call.
\* A set or update of store A that returned, wrote a number v durably and
\* had an open channel to post on, while store B had an observer, leaves B's
\* observers to be told of v.  They have been told once B's handler has
\* called each of them with v.  Any other set or update, a handler run of B
\* that failed underneath (read failure, throwing observer), and B losing
\* its last observer end the matter.
NoDebt == [due |-> FALSE, value |-> Undefined]

Owed(S, call) ==
  LET i == call.inst
      told == [k \in 1..Len(S.subscriptions["B"]) |->
                 [obs |-> S.subscriptions["B"][k], value |-> owed.value]]
  IN
  CASE call.op \in {"set", "update"} ->
         IF /\ i = "A" /\ ~call.threw /\ ~call.wfail /\ call.sent
            /\ S.storeValue["A"].t = "number"
            /\ S.created["B"] /\ S.subscriptions["B"] # <<>>
         THEN [due |-> TRUE, value |-> S.storeValue["A"]]
         ELSE NoDebt
    [] call.op = "onmessage" /\ i = "B" ->
         IF call.threw \/ call.rfail \/ call.data # storeKey
            \/ (call.calls = told /\ S.storeValue["B"] = owed.value)
         THEN NoDebt
         ELSE owed
    [] call.op = "unsubscribe" /\ i = "B" ->
         IF S.subscriptions["B"] = <<>> THEN NoDebt ELSE owed
    [] OTHER -> owed

Did(S, call) ==
  [call EXCEPT !.threw = S.threw, !.calls = S.calls, !.fnArgs = S.fnArgs,
               !.sent = S.sent, !.sets = S.sets]

Record(S, call) ==
  /\ last' = Did(S, call)
  /\ owed' = Owed(S, Did(S, call))

(***************************************************************************)
(* The helpers of lines 85-113.                                            *)
(***************************************************************************)
\* A safeParse whose catch block returns null.
safeParse_orNull(jsonString) ==
  LET r == JSONparse(jsonString) IN
  IF r.threw THEN Null ELSE r.value

safeParse(jsonString) ==
  LET r == JSONparse(jsonString) IN
  IF r.threw THEN Undefined ELSE r.value

\* A safeSetItem that removes the entry when the write fails.
safeSetItem_clearOnFail(S, value, wfail) ==
  IF wfail THEN [S EXCEPT !.localStorage = Null]
  ELSE [S EXCEPT !.localStorage = Str(ToJSString(JSONstringify(value)))]

safeSetItem(S, value, wfail) ==
  IF wfail THEN S
  ELSE [S EXCEPT !.localStorage = Str(ToJSString(JSONstringify(value)))]

safeGetItem(S, rfail) == IF rfail THEN Undefined ELSE S.localStorage

(***************************************************************************)
(* BroadcastChannel.                                                       *)
(***************************************************************************)
OpenChannels(S, j) ==
  {h \in 1..Len(S.channels[j]) : S.channels[j][h].open}

\* new BroadcastChannel(storeKey): a new open object without a handler.
newBroadcastChannel(S, i) ==
  [S EXCEPT !.channels[i] = Append(@, [open |-> TRUE, onmessage |-> FALSE]),
            !.storeChannel[i] = Len(S.channels[i]) + 1]

\* channel.postMessage(data): one message for every other context that holds
\* an open channel of the name, addressed to its open channel objects.
postMessage(S, i, data) ==
  [S EXCEPT
     !.sent = TRUE,
     !.inbox = [j \in Inst |->
        IF j # i /\ OpenChannels(S, j) # {}
        THEN Append(S.inbox[j], [to |-> OpenChannels(S, j), data |-> data])
        ELSE S.inbox[j]]]

\* An unsubscribe that removes with splice(indexOf(subscription), 1): an
\* index of -1 removes the last registration.
unsubscribe_splice(S, i, subscription) ==
  LET arr == S.subscriptions[i]
      at == {k \in 1..Len(arr) : arr[k] = subscription}
      cut == IF at = {} THEN Len(arr)
             ELSE CHOOSE k \in at : \A j \in at : k <= j
      S1 == [S EXCEPT !.subscriptions[i] =
                IF arr = <<>> THEN arr
                ELSE [j \in 1..(Len(arr) - 1) |->
                        IF j < cut THEN arr[j] ELSE arr[j + 1]]]
  IN IF S1.storeChannel[i] # 0 /\ arity(subscription) = 0
     THEN [S1 EXCEPT !.channels[i][S1.storeChannel[i]].open = FALSE,
                     !.storeChannel[i] = 0]
     ELSE S1

\* An unsubscribe whose filter test is inverted.
unsubscribe_inverted(S, i, subscription) ==
  LET S1 == [S EXCEPT !.subscriptions[i] =
                SelectSeq(@, LAMBDA s : s = subscription)]
  IN IF S1.storeChannel[i] # 0 /\ arity(subscription) = 0
     THEN [S1 EXCEPT !.channels[i][S1.storeChannel[i]].open = FALSE,
                     !.storeChannel[i] = 0]
     ELSE S1

\* unsubscribe, lines 140-148.
unsubscribe(S, i, subscription) ==
  LET S1 == [S EXCEPT !.subscriptions[i] =
                SelectSeq(@, LAMBDA s : s # subscription)]
  IN IF S1.storeChannel[i] # 0 /\ arity(subscription) = 0
     THEN [S1 EXCEPT !.channels[i][S1.storeChannel[i]].open = FALSE,
                     !.storeChannel[i] = 0]
     ELSE S1

(***************************************************************************)
(* subscriptions.forEach(subscription => subscription(storeValue)): the    *)
(* array being iterated is the one read when forEach starts; storeValue is *)
(* read at each call; a throwing callback ends the loop.  A callback that  *)
(* calls the store runs that call to its end before it returns.            *)
(***************************************************************************)
RECURSIVE forEach(_, _, _, _)
RECURSIVE set(_, _, _, _)
RECURSIVE update(_, _, _, _)

invoke(S, i, o) ==
  LET v == S.storeValue[i]
      S1 == [S EXCEPT !.calls = Append(@, [obs |-> o, value |-> v]),
                      !.threw = (Len(S.calls) + 1 = S.fault)]
  IN CASE S1.threw -> S1
       [] o = "r1" /\ v = Num(0) -> update(S1, i, "inc", FALSE)
       [] o = "u1" /\ "g1" \in S1.unsubscribes[i] -> unsubscribe(S1, i, "g1")
       [] OTHER -> S1

forEach(S, i, arr, k) ==
  IF k > Len(arr) \/ S.threw THEN S
  ELSE forEach(invoke(S, i, arr[k]), i, arr, k + 1)

(***************************************************************************)
(* The constructor body, lines 115-129.                                    *)
(***************************************************************************)
\* A constructor that starts from initialValue whatever is stored.
persistentWritable_ignoreStored(S, i, initialValue, rfail1, rfail2, wfail) ==
  LET S1 == safeSetItem([S EXCEPT !.storeValue[i] = initialValue],
                        initialValue, wfail)
  IN IF ~bcAvailable
     THEN [S1 EXCEPT !.threw = TRUE, !.storeValue[i] = S.storeValue[i]]
     ELSE LET S2 == newBroadcastChannel(S1, i) IN
          [S2 EXCEPT !.channels[i][S2.storeChannel[i]].onmessage = TRUE,
                     !.created[i] = TRUE]

\* A constructor that assigns initialValue only once it has been written.
persistentWritable_needsWrite(S, i, initialValue, rfail1, rfail2, wfail) ==
  LET currentStoreString == safeGetItem(S, rfail1)
      S1 == IF currentStoreString.t \in {"null", "undefined"}
            THEN IF wfail THEN S
                 ELSE safeSetItem([S EXCEPT !.storeValue[i] = initialValue],
                                  initialValue, wfail)
            ELSE [S EXCEPT !.storeValue[i] = safeParse(safeGetItem(S, rfail2))]
  IN IF ~bcAvailable
     THEN [S1 EXCEPT !.threw = TRUE, !.storeValue[i] = S.storeValue[i]]
     ELSE LET S2 == newBroadcastChannel(S1, i) IN
          [S2 EXCEPT !.channels[i][S2.storeChannel[i]].onmessage = TRUE,
                     !.created[i] = TRUE]

persistentWritable(S, i, initialValue, rfail1, rfail2, wfail) ==
  LET currentStoreString == safeGetItem(S, rfail1)
      S1 == IF currentStoreString.t \in {"null", "undefined"}
            THEN safeSetItem([S EXCEPT !.storeValue[i] = initialValue],
                             initialValue, wfail)
            ELSE [S EXCEPT !.storeValue[i] = safeParse(safeGetItem(S, rfail2))]
  IN IF ~bcAvailable
     THEN [S1 EXCEPT !.threw = TRUE, !.storeValue[i] = S.storeValue[i]]
     ELSE LET S2 == newBroadcastChannel(S1, i) IN
          [S2 EXCEPT !.channels[i][S2.storeChannel[i]].onmessage = TRUE,
                     !.created[i] = TRUE]

\* storeChannel.onmessage, lines 124-129.
onmessage(S, i, data, rfail) ==
  LET S1 == [S EXCEPT !.storeValue[i] = safeParse(safeGetItem(S, rfail))]
  IN IF data = storeKey THEN forEach(S1, i, S1.subscriptions[i], 1) ELSE S1

\* A subscribe that registers the callback before calling it.
subscribe_registerFirst(S, i, subscription) ==
  LET S1 == [S EXCEPT !.subscriptions[i] = Append(@, subscription)]
      S2 == invoke(S1, i, subscription)
  IN IF S2.threw THEN S2
     ELSE LET S3 == IF arity(subscription) = 1 /\ S2.storeChannel[i] = 0
                    THEN newBroadcastChannel(S2, i)
                    ELSE S2
          IN [S3 EXCEPT !.unsubscribes[i] = @ \cup {subscription}]

\* A subscribe that does not test storeChannel === null.
subscribe_alwaysOpen(S, i, subscription) ==
  LET S1 == invoke(S, i, subscription) IN
  IF S1.threw THEN S1
  ELSE LET S2 == [S1 EXCEPT !.subscriptions[i] = Append(@, subscription)]
           S3 == IF arity(subscription) = 1
                 THEN newBroadcastChannel(S2, i)
                 ELSE S2
       IN [S3 EXCEPT !.unsubscribes[i] = @ \cup {subscription}]

\* subscribe, lines 132-150.
subscribe(S, i, subscription) ==
  LET S1 == invoke(S, i, subscription) IN
  IF S1.threw THEN S1
  ELSE LET S2 == [S1 EXCEPT !.subscriptions[i] = Append(@, subscription)]
           S3 == IF arity(subscription) = 1 /\ S2.storeChannel[i] = 0
                 THEN newBroadcastChannel(S2, i)
                 ELSE S2
       IN [S3 EXCEPT !.unsubscribes[i] = @ \cup {subscription}]

\* A set that writes storeValue before assigning it.
set_staleWrite(S, i, value, wfail) ==
  LET S1 == safeSetItem(S, S.storeValue[i], wfail)
      S2 == [S1 EXCEPT !.storeValue[i] = value]
      S3 == forEach(S2, i, S2.subscriptions[i], 1)
  IN IF S3.threw THEN S3
     ELSE IF S3.storeChannel[i] # 0 THEN postMessage(S3, i, storeKey)
     ELSE S3

\* A set that posts the message before it calls the observers.
set_postFirst(S, i, value, wfail) ==
  LET S1 == [S EXCEPT !.storeValue[i] = value]
      S2 == safeSetItem(S1, value, wfail)
      S3 == IF S2.storeChannel[i] # 0 THEN postMessage(S2, i, storeKey)
            ELSE S2
  IN forEach(S3, i, S3.subscriptions[i], 1)

\* set, lines 153-161.
set(S, i, value, wfail) ==
  LET S1 == [S EXCEPT !.storeValue[i] = value, !.sets = Append(@, value)]
      S2 == safeSetItem(S1, value, wfail)
      S3 == forEach(S2, i, S2.subscriptions[i], 1)
  IN IF S3.threw THEN S3
     ELSE IF S3.storeChannel[i] # 0 THEN postMessage(S3, i, storeKey)
     ELSE S3

\* An update that applies update_func twice.
update_twice(S, i, fn, wfail) ==
  LET once == update_func(fn, S.storeValue[i]) IN
  set([S EXCEPT !.fnArgs = <<S.storeValue[i], once>>], i,
      update_func(fn, once), wfail)

\* update, lines 164-165.
update(S, i, fn, wfail) ==
  set([S EXCEPT !.fnArgs = Append(@, S.storeValue[i])], i,
      update_func(fn, S.storeValue[i]), wfail)

(***************************************************************************)
(* Steps.                                                                  *)
(***************************************************************************)
\* What localStorage may hold before any store is created: nothing, a value
\* an earlier session wrote, or text that is not JSON.
StoredBefore == {Null, Str("1"), Str("{oops")}

Init ==
  /\ localStorage \in StoredBefore
  /\ bcAvailable \in BOOLEAN
  /\ created = [i \in Inst |-> FALSE]
  /\ storeValue = [i \in Inst |-> Undefined]
  /\ subscriptions = [i \in Inst |-> <<>>]
  /\ channels = [i \in Inst |-> <<>>]
  /\ storeChannel = [i \in Inst |-> 0]
  /\ unsubscribes = [i \in Inst |-> {}]
  /\ inbox = [i \in Inst |-> <<>>]
  /\ steps = 0
  /\ owed = NoDebt
  /\ faults = 0
  /\ last = NoOp

\* One more step in which something fails (failed), or none.
Fail(failed) ==
  LET n == IF failed THEN 1 ELSE 0 IN
  faults + n <= MaxFaults /\ faults' = faults + n

\* One more call of the store interface.
Call == steps < MaxSteps /\ steps' = steps + 1

\* Store A is the first to be created, store B the second.
Create(i) ==
  /\ ~created[i]
  /\ i = "B" => created["A"]
  /\ \E initialValue \in Args, rfail1, rfail2, wfail \in BOOLEAN :
       LET S == persistentWritable(Cur(0), i, initialValue, rfail1, rfail2, wfail)
       IN /\ Fail(rfail1 \/ rfail2 \/ wfail)
          /\ Commit(S)
          /\ Record(S, [NoOp EXCEPT !.op = "create", !.inst = i,
                 !.value = initialValue, !.wfail = wfail,
                 !.rfail = rfail1 \/ rfail2,
                 !.data = IF safeGetItem(Cur(0), rfail1).t = "string"
                          THEN "stored" ELSE "initial"])
  /\ UNCHANGED <<bcAvailable, steps>>

Subscribe(i) ==
  /\ created[i]
  /\ Call
  /\ \E subscription \in Observers, fault \in 0..1 :
       /\ LET S == subscribe(Cur(fault), i, subscription)
          IN /\ Fail(fault > 0)
             /\ Commit(S)
             /\ Record(S, [NoOp EXCEPT !.op = "subscribe", !.inst = i,
                    !.obs = subscription])
  /\ UNCHANGED bcAvailable

Unsubscribe(i) ==
  /\ created[i]
  /\ Call
  /\ \E subscription \in unsubscribes[i] :
       LET S == unsubscribe(Cur(0), i, subscription)
       IN /\ Fail(FALSE)
          /\ Commit(S)
          /\ Record(S, [NoOp EXCEPT !.op = "unsubscribe", !.inst = i,
                 !.obs = subscription])
  /\ UNCHANGED bcAvailable

Set(i) ==
  /\ created[i]
  /\ Call
  /\ \E value \in Args, wfail \in BOOLEAN, fault \in 0..Len(subscriptions[i]) :
       LET S == set(Cur(fault), i, value, wfail)
       IN /\ Fail(fault > 0 \/ wfail)
          /\ Commit(S)
          /\ Record(S, [NoOp EXCEPT !.op = "set", !.inst = i,
                 !.value = value, !.wfail = wfail])
  /\ UNCHANGED bcAvailable

Update(i) ==
  /\ created[i]
  /\ Call
  /\ \E fn \in Fns, wfail \in BOOLEAN, fault \in 0..Len(subscriptions[i]) :
       /\ update_func(fn, storeValue[i]) \in Args
       /\ LET S == update(Cur(fault), i, fn, wfail)
          IN /\ Fail(fault > 0 \/ wfail)
             /\ Commit(S)
             /\ Record(S, [NoOp EXCEPT !.op = "update", !.inst = i,
                    !.fn = fn, !.wfail = wfail])
  /\ UNCHANGED bcAvailable

\* The event loop of context i runs the task of its oldest message: the
\* handler of each addressed channel object that is still open and has one.
Deliver(i) ==
  /\ inbox[i] # <<>>
  /\ \E rfail \in BOOLEAN, fault \in 0..Len(subscriptions[i]) :
       LET m == Head(inbox[i])
           S0 == [Cur(fault) EXCEPT !.inbox[i] = Tail(@)]
           heard == \E h \in m.to :
                      channels[i][h].open /\ channels[i][h].onmessage
           S == IF heard THEN onmessage(S0, i, m.data, rfail) ELSE S0
       IN /\ heard \/ ~rfail
          /\ (heard /\ m.data = storeKey) \/ fault = 0
          /\ Fail(fault > 0 \/ rfail)
          /\ Commit(S)
          /\ Record(S, [NoOp EXCEPT
                 !.op = IF heard THEN "onmessage" ELSE "dropped",
                 !.inst = i, !.data = m.data, !.rfail = heard /\ rfail])
  /\ UNCHANGED <<bcAvailable, steps>>

Next ==
  \/ \E i \in Inst : Create(i)
  \/ \E i \in Inst : Subscribe(i)
  \/ \E i \in Inst : Unsubscribe(i)
  \/ \E i \in Inst : Set(i)
  \/ \E i \in Inst : Update(i)
  \/ \E i \in Inst : Deliver(i)

Spec == Init /\ [][Next]_vars

(***************************************************************************)
(* The channel is found by its name: a script of a third context of the    *)
(* origin that opens BroadcastChannel(storeKey) can post any data on it,   *)
(* and the handler of lines 124-129 compares event.data with storeKey.     *)
(***************************************************************************)
otherTag == "other"

ForeignPost ==
  /\ Call
  /\ \E i \in Inst : OpenChannels(Cur(0), i) # {}
  /\ LET S == postMessage(Cur(0), "C", otherTag)
     IN /\ Fail(FALSE)
        /\ Commit(S)
        /\ Record(S, [NoOp EXCEPT !.op = "foreign", !.inst = "C",
               !.data = otherTag])
  /\ UNCHANGED bcAvailable

NextTag == Next \/ ForeignPost

SpecTag == Init /\ [][NextTag]_vars

(***************************************************************************)
(* Stores whose observers call the store while they are being notified.    *)
(***************************************************************************)
SubscribeR(i) ==
  /\ created[i]
  /\ Call
  /\ \E subscription \in ObserversR, fault \in 0..1 :
       /\ LET S == subscribe(Cur(fault), i, subscription)
          IN /\ Fail(fault > 0)
             /\ Commit(S)
             /\ Record(S, [NoOp EXCEPT !.op = "subscribe", !.inst = i,
                    !.obs = subscription])
  /\ UNCHANGED bcAvailable

NextR ==
  \/ \E i \in Inst : Create(i)
  \/ \E i \in Inst : SubscribeR(i)
  \/ \E i \in Inst : Unsubscribe(i)
  \/ \E i \in Inst : Set(i)
  \/ \E i \in Inst : Update(i)
  \/ \E i \in Inst : Deliver(i)

SpecR == Init /\ [][NextR]_vars

(***************************************************************************)
(* Properties.                                                             *)
(***************************************************************************)
PublicOps == {"subscribe", "set", "update"}

\* The observer calls a notification round of store i makes with value v.
Round(i, v) == [k \in 1..Len(subscriptions[i]) |->
                  [obs |-> subscriptions[i][k], value |-> v]]

Quiescent == \A i \in Inst : inbox[i] = <<>>

\* C1: cross-context propagation.  After store A set a number (the durable
\* write succeeded and A's channel was open) while store B had a registered
\* observer, B's handler runs and calls B's observers with that number: once
\* every message has been delivered, with no set or update in between, none
\* of B's observers is still to be told.
C1_Propagation == Quiescent => ~owed.due

\* C2: channel lifecycle.  A store that has had an observer holds exactly
\* one open channel while its registry is not empty and no open channel while
\* its registry is empty, whatever the parameter counts of the callbacks.
\* (The state between construction and the first subscribe is left aside.)
C2_ChannelLifecycle ==
  \A i \in Inst :
    created[i] /\ unsubscribes[i] # {} =>
      IF subscriptions[i] = <<>>
      THEN OpenChannels(Cur(0), i) = {}
      ELSE Cardinality(OpenChannels(Cur(0), i)) = 1

\* C3: immediate notification.  subscribe(observer) on a store whose
\* in-memory value is v calls observer exactly once, with v, and calls no
\* other observer; the value is unchanged; the observer joins the registry
\* after that call: at the end of the registry when the call returned, not
\* at all when the call threw.
C3_ImmediateNotification ==
  [][last'.op = "subscribe" =>
       LET i == last'.inst
           o == last'.obs
       IN /\ last'.calls = <<[obs |-> o, value |-> storeValue[i]]>>
          /\ storeValue' = storeValue
          /\ subscriptions' =
               IF last'.threw THEN subscriptions
               ELSE [subscriptions EXCEPT ![i] = Append(@, o)]]_vars

\* A second observer subscribes to store B, whose value a broadcast or a set
\* has made 1, and is called with 1.
C3_Witness ==
  /\ last.op = "subscribe" /\ last.inst = "B" /\ ~last.threw
  /\ last.calls = <<[obs |-> "g1", value |-> Num(1)]>>
  /\ Len(subscriptions["B"]) = 2

\* C4: write-through.  Right after set(v2) whose durable write did not fail,
\* the localStorage entry is JSON.stringify(v2) and the in-memory value is v2
\* (also when an observer threw during the notification).
C4_WriteThrough ==
  last.op = "set" /\ ~last.wfail =>
    /\ localStorage = JSONstringify(last.value)
    /\ storeValue[last.inst] = last.value

\* set(1) on a store that held 0, with an observer registered.
C4_Witness ==
  /\ last.op = "set" /\ ~last.wfail /\ ~last.threw
  /\ last.value = Num(1) /\ localStorage = Str("1")
  /\ last.calls # <<>>

\* C5 as claimed: when a store is created with a number v and then a second
\* store is created for the same key (no read or write of localStorage
\* failing), the second store starts with v.
C5_RoundTrip ==
  [][(/\ last.op = "create" /\ ~last.threw /\ last.value \in Numbers
      /\ ~last.wfail /\ ~last.rfail
      /\ last'.op = "create" /\ ~last'.threw /\ ~last'.rfail)
     => storeValue'[last'.inst] = last.value]_vars

\* C5, amended: when a store is created with a number v while localStorage
\* holds no entry for the key, and then a second store is created for the
\* same key with any initial value, no read or write of localStorage
\* failing, the second store starts with v, and v is what its first
\* subscriber is called with.
C5_RoundTripFresh ==
  [][/\ (/\ last.op = "create" /\ ~last.threw /\ last.value \in Numbers
          /\ last.data = "initial" /\ ~last.wfail /\ ~last.rfail
          /\ last'.op = "create" /\ ~last'.threw /\ ~last'.rfail)
         => storeValue'[last'.inst] = last.value
     /\ (/\ last.op = "create" /\ ~last.threw
          /\ last'.op = "subscribe" /\ last'.inst = last.inst)
         => last'.calls = <<[obs |-> last'.obs,
                             value |-> storeValue[last.inst]]>>]_vars

\* Store A was created with 0 on an empty localStorage, then store B with
\* another initial value: B starts with 0.
C5_Witness ==
  /\ steps = 0 /\ created["A"]
  /\ last.op = "create" /\ last.inst = "B" /\ ~last.threw
  /\ last.data = "stored" /\ last.value = Num(1)
  /\ storeValue["A"] = Num(0) /\ storeValue["B"] = Num(0)
  /\ localStorage = Str("0")

\* C6: graceful degradation.  A set(v) whose durable write fails (and in
\* which no observer throws) still assigns v, still calls every registered
\* observer with v, in registry order, and leaves the localStorage entry as
\* it was.
C6_WriteFailure ==
  [][last'.op = "set" /\ last'.wfail /\ ~last'.threw =>
       LET i == last'.inst IN
       /\ storeValue'[i] = last'.value
       /\ last'.calls = Round(i, last'.value)
       /\ localStorage' = localStorage]_vars

\* A failed write in set(1) with two observers registered: both were called,
\* and the entry is not the text of 1.
C6_Witness ==
  /\ last.op = "set" /\ last.wfail /\ ~last.threw
  /\ last.value = Num(1) /\ Len(last.calls) = 2
  /\ storeValue[last.inst] = Num(1)
  /\ localStorage # Str("1")

\* C7: no error reaches a caller of subscribe, set or update.
C7_NoErrorToCaller == last.op \in PublicOps => ~last.threw

\* C8: where BroadcastChannel is not available, creating the store still
\* succeeds.
C8_NoBroadcastMedium ==
  ~bcAvailable /\ last.op = "create" => ~last.threw /\ created[last.inst]

Registered(i, o) == \E k \in 1..Len(subscriptions[i]) : subscriptions[i][k] = o

C10_UpdateIsSet ==
  [][last'.op = "update" =>
       LET i == last'.inst
           v == storeValue[i]
       IN /\ last'.fnArgs = <<v>>
          /\ \E fault \in 0..MaxSteps :
               LET R == set(Cur(fault), i, update_func(last'.fn, v),
                            last'.wfail)
               IN /\ storeValue' = R.storeValue
                  /\ localStorage' = R.localStorage
                  /\ subscriptions' = R.subscriptions
                  /\ storeChannel' = R.storeChannel
                  /\ channels' = R.channels
                  /\ inbox' = R.inbox
                  /\ last'.calls = R.calls
                  /\ last'.sent = R.sent
                  /\ last'.threw = R.threw]_vars

\* update(v => v + 1) took a store with an observer from 0 to 1, wrote "1"
\* and posted to the other context.
C10_Witness ==
  /\ last.op = "update" /\ last.fn = "inc" /\ ~last.wfail /\ ~last.threw
  /\ last.fnArgs = <<Num(0)>>
  /\ storeValue[last.inst] = Num(1) /\ localStorage = Str("1")
  /\ last.calls # <<>> /\ last.sent
  /\ \E j \in Inst : inbox[j] # <<>>

\* C11: construction with no usable stored entry.  Where BroadcastChannel
\* exists, persistentWritable(storeKey, initialValue) returns a store.  When
\* the first read finds no entry or fails, the store's in-memory value is
\* initialValue and JSON.stringify(initialValue) is written; when that write
\* fails the entry stays as it was and the in-memory value is initialValue
\* all the same.  When the first read returns an entry, the entry is left
\* as it is.
C11_ConstructionNoEntry ==
  [][last'.op = "create" /\ bcAvailable =>
       LET i == last'.inst IN
       /\ ~last'.threw /\ created'[i]
       /\ localStorage = Null => last'.data = "initial"
       /\ localStorage # Null /\ ~last'.rfail => last'.data = "stored"
       /\ last'.data = "initial" =>
            /\ storeValue'[i] = last'.value
            /\ localStorage' =
                 IF last'.wfail THEN localStorage
                 ELSE Str(ToJSString(JSONstringify(last'.value)))
       /\ last'.data = "stored" => localStorage' = localStorage]_vars

\* Store B is created with 1 after store A was created with 0 and its write
\* failed: no entry, B starts with 1 and writes "1".  (A started with 0.)
C11_Witness ==
  /\ last.op = "create" /\ last.inst = "B" /\ ~last.threw
  /\ last.data = "initial" /\ last.value = Num(1)
  /\ storeValue["A"] = Num(0) /\ storeValue["B"] = Num(1)
  /\ localStorage = Str("1") /\ faults = 1

\* C12: reopen after close.  A store that closed its channel and opened a
\* new one in a later subscribe reacts to a broadcast as before the close:
\* when a message tagged storeKey that was sent to the new channel is
\* delivered, the store's handler runs, and (no read failing, no observer
\* throwing) it reloads the value from localStorage and calls every
\* registered observer with it.
C12_ReopenReacts ==
  [][\A i \in Inst :
       (/\ last'.op \in {"onmessage", "dropped"} /\ last'.inst = i
        /\ last'.data = storeKey
        /\ storeChannel[i] > 1
        /\ storeChannel[i] \in Head(inbox[i]).to)
       => /\ last'.op = "onmessage"
          /\ (~last'.rfail /\ ~last'.threw) =>
               /\ storeValue'[i] = safeParse(localStorage)
               /\ last'.calls = Round(i, storeValue'[i])]_vars

\* C13: tag check on received broadcasts.  A handler run for a message
\* tagged storeKey (no read failing, no observer throwing) sets the
\* in-memory value to the value re-read from localStorage and calls every
\* registered observer with it; a handler run for a message with any other
\* tag leaves the in-memory value as it was and calls no observer.
C13_TagCheck ==
  [][last'.op = "onmessage" =>
       LET i == last'.inst IN
       IF last'.data = storeKey
       THEN (~last'.rfail /\ ~last'.threw) =>
              /\ storeValue'[i] = safeParse(localStorage)
              /\ last'.calls = Round(i, storeValue'[i])
       ELSE /\ storeValue'[i] = storeValue[i]
            /\ last'.calls = <<>>]_vars

\* C14: order of the steps of set(v).  The value is assigned and the write
\* of JSON.stringify(v) is made before any observer is called: the observers
\* are called in registry order, each with v, and when one of them throws
\* the value has been assigned and written all the same.  The message is
\* posted after the last observer returned, and only when the store holds a
\* channel: a set in which an observer threw, or of a store without a
\* channel, puts no message in flight; a message is in flight to another
\* context only once the write has been made.
C14_SetOrder ==
  [][last'.op = "set" =>
       LET i == last'.inst
           v == last'.value
           n == Len(last'.calls)
       IN /\ storeValue'[i] = v
          /\ localStorage' = IF last'.wfail THEN localStorage
                             ELSE Str(ToJSString(JSONstringify(v)))
          /\ n <= Len(subscriptions[i])
          /\ last'.calls = SubSeq(Round(i, v), 1, n)
          /\ ~last'.threw => n = Len(subscriptions[i])
          /\ last'.sent = (~last'.threw /\ storeChannel[i] # 0)
          /\ inbox' =
               [j \in Inst |->
                  IF last'.sent /\ j # i /\ OpenChannels(Cur(0), j) # {}
                  THEN Append(inbox[j], [to |-> OpenChannels(Cur(0), j),
                                         data |-> storeKey])
                  ELSE inbox[j]]]_vars

\* set(1) on a store that holds an open channel and has two observers, the
\* second of which throws: "1" is written, both were called with 1, and no
\* message is in flight.
C14_Witness ==
  /\ last.op = "set" /\ last.threw /\ ~last.wfail /\ ~last.sent
  /\ last.value = Num(1) /\ localStorage = Str("1")
  /\ Len(last.calls) = 2 /\ last.calls[2].value = Num(1)
  /\ storeChannel[last.inst] # 0
  /\ \A j \in Inst : created[j] /\ inbox[j] = <<>>

\* The number of registrations of callback o in the array arr, and in the
\* registry of store i.
CountIn(arr, o) == Cardinality({k \in 1..Len(arr) : arr[k] = o})

Count(i, o) == CountIn(subscriptions[i], o)

\* C15: local notification order.  In a set or update that returns, with
\* the registry the same before and after, every registration is notified
\* once for each mutation made during the call (the call's own and those
\* its observers make by calling set or update while being notified), with
\* that mutation's value, in the order of the mutations.
C15_LocalOrder ==
  [][\A i \in Inst :
       (/\ last'.op \in {"set", "update"} /\ last'.inst = i /\ ~last'.threw
        /\ subscriptions'[i] = subscriptions[i])
       => \A o \in Observers \cup ObserversR :
            LET c == Count(i, o)
                got == SelectSeq(last'.calls, LAMBDA x : x.obs = o)
            IN /\ Len(got) = c * Len(last'.sets)
               /\ \A k \in 1..Len(got) :
                    got[k].value = last'.sets[((k - 1) \div c) + 1]]_vars

\* C16: at most one open channel per store.  After every step each store has
\* at most one open channel object, and every open channel object of a store
\* is the one storeChannel refers to (an object the store no longer refers
\* to has been closed); a step creates a channel object for a store only
\* when the store refers to none, and creates one only.
C16_OneOpenChannel ==
  [][\A i \in Inst :
       LET open == {h \in 1..Len(channels'[i]) : channels'[i][h].open}
       IN /\ Cardinality(open) <= 1
          /\ \A h \in open : h = storeChannel'[i]
          /\ Len(channels'[i]) # Len(channels[i]) =>
               /\ storeChannel[i] = 0
               /\ Len(channels'[i]) = Len(channels[i]) + 1
               /\ storeChannel'[i] = Len(channels'[i])]_vars

\* A store closed the channel of its constructor and opened a second one.
C16_Witness ==
  \E i \in Inst :
    /\ Len(channels[i]) = 2 /\ storeChannel[i] = 2
    /\ ~channels[i][1].open /\ channels[i][2].open
    /\ last.op = "subscribe" /\ last.inst = i

\* C17: deserialization failure.  While localStorage holds an entry that
\* JSON.parse rejects and the reads do not fail: creating a store (where
\* BroadcastChannel exists) returns a store whose in-memory value is
\* undefined, not initialValue; a handler run sets the in-memory value to
\* undefined and calls the observers with undefined, raising no error of
\* its own (only a throwing observer ends it); both leave the entry as it is.
C17_DeserializationFailure ==
  [][(localStorage.t = "string" /\ JSONparse(localStorage).threw
        /\ ~last'.rfail) =>
       LET i == last'.inst IN
       /\ (last'.op = "create" /\ bcAvailable) =>
            /\ ~last'.threw /\ created'[i]
            /\ storeValue'[i] = Undefined /\ storeValue'[i] # last'.value
            /\ localStorage' = localStorage
       /\ last'.op = "onmessage" =>
            /\ storeValue'[i] = Undefined
            /\ localStorage' = localStorage
            /\ last'.threw => last'.calls # <<>>
            /\ ~last'.threw => last'.calls = Round(i, Undefined)]_vars

\* Both stores were created from an entry that is not JSON; a set of store A
\* whose write failed made store B reload it and call its observer with
\* undefined.
C17_Witness ==
  /\ last.op = "onmessage" /\ last.inst = "B" /\ ~last.threw /\ ~last.rfail
  /\ localStorage = Str("{oops")
  /\ storeValue["B"] = Undefined /\ storeValue["A"] \in Numbers
  /\ last.calls = <<[obs |-> "g1", value |-> Undefined]>>

\* C18: convergence.  In a run in which nothing failed (no read, no write,
\* no observer) and the localStorage entry is the text of a number, when the
\* delivery of a broadcast to a store leaves no message in flight and the
\* store holds an open channel, the store's in-memory value is the
\* deserialization of the entry.
C18_Convergence ==
  [][\A j \in Inst :
       (/\ last'.op \in {"onmessage", "dropped"} /\ last'.inst = j
        /\ faults' = 0
        /\ safeParse(localStorage') \in Numbers
        /\ \A k \in Inst : inbox'[k] = <<>>
        /\ storeChannel'[j] # 0)
       => storeValue'[j] = safeParse(localStorage')]_vars

\* The steps in which a store calls observers.
Notifying == {"subscribe", "set", "update", "onmessage"}

\* Callback o is called in the step just taken.
Called(o) == \E k \in 1..Len(last.calls) : last.calls[k].obs = o

\* C19 as claimed: once the unsubscribe function of an observer has
\* returned, the store does not call the observer again (until it is
\* subscribed again): not in a later step, and not in the rest of a
\* notification round during which another observer called that unsubscribe
\* function (u1 calls the unsubscribe function of g1).
C19_NoCallAfterUnsubscribe ==
  [][\A i \in Inst : last'.inst = i /\ last'.op \in Notifying =>
       /\ \A o \in Observers \cup ObserversR :
            (~Registered(i, o) /\ ~(last'.op = "subscribe" /\ last'.obs = o))
            => ~Called(o)'
       /\ "g1" \in unsubscribes[i] =>
            \A k, m \in 1..Len(last'.calls) :
              k < m /\ last'.calls[k].obs = "u1" => last'.calls[m].obs # "g1"]_vars

\* C19, amended: a call of unsubscribe takes every registration of its
\* observer out of the registry, whether it is made on its own or by another
\* observer during a notification round; an observer enters the registry
\* only by its subscribe; and a subscribe, set, update or handler run calls
\* only observers that are registered when it starts (and the one being
\* subscribed).  So no set, update or broadcast that starts after the
\* unsubscribe returned calls the observer.
C19_NoCallInLaterRound ==
  [][\A i \in Inst : \A o \in Observers \cup ObserversR :
       /\ (last'.inst = i /\ last'.op \in Notifying
             /\ ~Registered(i, o)
             /\ ~(last'.op = "subscribe" /\ last'.obs = o))
          => ~Called(o)'
       /\ (last'.inst = i /\ last'.op = "unsubscribe" /\ last'.obs = o)
          => ~Registered(i, o)'
       /\ (last'.inst = i /\ last'.op \in Notifying /\ ~last'.threw
             /\ o = "g1" /\ "g1" \in unsubscribes[i] /\ Called("u1")'
             /\ ~(last'.op = "subscribe" /\ last'.obs = "g1"))
          => ~Registered(i, o)'
       /\ (Registered(i, o)' /\ ~Registered(i, o))
          => last'.inst = i /\ last'.op = "subscribe" /\ last'.obs = o]_vars

\* u1 took g1 out of the registry during the round of set(0), in which g1
\* was still called; the round of the next call, set(1), called u1 only.
C19_Witness ==
  /\ last.op = "set" /\ last.value = Num(1) /\ ~last.threw
  /\ subscriptions[last.inst] = <<"u1">>
  /\ "g1" \in unsubscribes[last.inst]
  /\ last.calls = <<[obs |-> "u1", value |-> Num(1)]>>
  /\ steps = 4

\* C20: unsubscribe removes only its own registration.  A call of an
\* unsubscribe function leaves the registrations of every other observer as
\* they are, and, one call taking out one registration at most, leaves its
\* observer registered when the observer was registered twice or more.
C20_OwnRegistrationOnly ==
  [][last'.op = "unsubscribe" =>
       LET i == last'.inst
           o == last'.obs
       IN /\ \A p \in (Observers \cup ObserversR) \ {o} :
               CountIn(subscriptions'[i], p) = Count(i, p)
          /\ Count(i, o) >= 2 =>
               CountIn(subscriptions'[i], o) >= Count(i, o) - 1]_vars

====
